---- MODULE Spec2Model ----
(***************************************************************************)
(* Playback controller of NovaDrive-Player (src/components/Player.tsx).    *)
(*                                                                         *)
(* The component is modelled as the event loop sees it: every handler      *)
(* (track effect, togglePlay, element events) is one task; the code behind *)
(* an `await` is a microtask that runs, in registration order, right after *)
(* the awaited play() promise settles and before any other task.          *)
(*                                                                         *)
(* The media element is the environment.  A pending play() promise may     *)
(* resolve (not while the element is in its error state) or reject with a  *)
(* non-abort error at any time.  load(), pause() and the removal of the    *)
(* element settle every pending promise on the spot: one whose resolution  *)
(* was already queued resolves, the others reject with AbortError.  A      *)
(* handler reads the React state of the last commit, which is modelled as  *)
(* the current state.                                                      *)
(***************************************************************************)
EXTENDS Integers, Sequences, FiniteSets, TLC

\* ---- bounds ----
MaxOps == 2          \* play() calls issued in one run
MaxTracks == 2       \* distinct tracks of the queue
MaxWaiters == 1      \* pause intents awaiting one play() promise
MaxPos == 1          \* playback positions and durations, in seconds
MaxVol == 2          \* the volume input takes MaxVol + 1 levels

None == 0
Tracks == 1..MaxTracks
OpIds == 1..MaxOps
Positions == 0..MaxPos

\* volumes in hundredths: useState(0.8) (Player.tsx:17), the volume a media
\* element is created with, and the levels the range input is moved to
InitialVolume == 80
DefaultElVolume == 100
Volumes == {(100 * i) \div MaxVol : i \in 0..MaxVol}

\* the error state: null (Player.tsx:18) or a message (Player.tsx:128, 107)
NoError == "null"
ErrLoad == "Failed to load audio source."
ErrPlay == "Unable to play this source."

VARIABLES
  track,            \* the track prop (None: nothing rendered, no element)
  isPlaying,        \* useState, Player.tsx:14
  error,            \* useState, Player.tsx:18 (NoError or a message)
  currentTime,      \* useState, Player.tsx:15
  duration,         \* useState, Player.tsx:16
  elPos,            \* audioRef.current.currentTime, the element's position
  volume,           \* useState, Player.tsx:17
  elVolume,         \* audioRef.current.volume
  analyser,         \* useState, Player.tsx:19 (TRUE: an analysis node is set)
  audioCtx,         \* audioCtxRef.current: "none", "running" or "suspended"
  playPromiseRef,   \* playPromiseRef.current: None or the op it holds
  elemError,        \* the element is in its error state (until the next load)
  elPlaying,        \* the element is playing: not paused, not ended, no error
  isInitialMount,   \* isInitialMount.current
  ops,              \* every play() promise issued so far
  nextOp,           \* id the next play() call gets
  pauseWaiters,     \* per op: togglePlay pause paths suspended on it
  microtasks,       \* continuations queued by a settlement, in order
  ctxCount,         \* AudioContext objects constructed so far
  analyserCount,    \* AnalyserNode objects constructed so far
  loadCount,        \* loadTrack runs so far, saturating at 2
  autoOp,           \* the op issued by the most recent loadTrack, as long as
                    \* no element error event arrived since (else None)
  scn,              \* progress through the "B fails to load" scenario
  last              \* what the last handler of the playback state did (the
                    \* time handlers and the seek leave it alone)

vars == << track, isPlaying, error, currentTime, duration, elPos, volume,
           elVolume, analyser,
           audioCtx, playPromiseRef, elemError, elPlaying, isInitialMount,
           ops, nextOp,
           pauseWaiters, microtasks, ctxCount, analyserCount, loadCount,
           autoOp, scn, last >>

\* the PlaybackState fields other than isPlaying and error, and the element's
\* position
timeVars == << currentTime, duration, elPos >>

volVars == << volume, elVolume >>

\* ---- records ----
\* status: "unissued", "pending", "resolved", "abort" (rejected with
\* AbortError) or "reject" (rejected otherwise); stale: settled by a change
\* of the track prop
NoOp == [status |-> "unissued", issuer |-> "none", stale |-> FALSE]

\* what a handler reports about itself; each action overrides some fields
E0 == [ev |-> "init", outcome |-> "none", stale |-> FALSE, issued |-> None,
       first |-> FALSE, threw |-> FALSE, setPlaying |-> "none",
       paused |-> FALSE, onNext |-> 0]

Pending(k) == ops[k].status = "pending"
Outstanding == {k \in OpIds : Pending(k)}
Settled == Outstanding = {} /\ microtasks = << >>

Min(a, b) == IF a < b THEN a ELSE b

\* ---- the platform's media element ----
\* the sets of pending promises a load(), pause() or removal may resolve
Resolvable == IF elemError THEN {{}} ELSE SUBSET Outstanding

\* load(), pause() or removal of the element: every pending promise settles,
\* those of R resolve and the others reject with AbortError
Flush(o, R, st) ==
  [k \in OpIds |-> IF o[k].status = "pending"
                     THEN [o[k] EXCEPT
                             !.status = IF k \in R THEN "resolved" ELSE "abort",
                             !.stale = st]
                     ELSE o[k]]

\* the code suspended on promise k, in the order it awaited: the issuer
\* first, then the pause paths
Reactions(k) ==
  << [kind |-> ops[k].issuer, op |-> k] >> \o
  [i \in 1..pauseWaiters[k] |-> [kind |-> "pause", op |-> k]]

\* the reactions of every pending promise from k on, oldest promise first
RECURSIVE FlushReactions(_)
FlushReactions(k) ==
  IF k > MaxOps THEN << >>
  ELSE (IF Pending(k) THEN Reactions(k) ELSE << >>) \o FlushReactions(k + 1)

NoWaiters == [k \in OpIds |-> 0]

\* audioRef.current.play() issued by `who`
Play(o, who) ==
  [o EXCEPT ![nextOp] = [status |-> "pending", issuer |-> who,
                         stale |-> FALSE]]

\* initAudioContext without the `!audioCtxRef.current` test of line 28
initAudioContextAlways(ctx, el, ok) ==
  IF el
    THEN IF ok
           THEN [threw |-> FALSE, ctx |-> "running", created |-> TRUE]
           ELSE [threw |-> TRUE, ctx |-> ctx, created |-> FALSE]
    ELSE [threw |-> FALSE,
          ctx |-> IF ctx = "suspended" THEN "running" ELSE ctx,
          created |-> FALSE]

\* ---- initAudioContext, Player.tsx:27-42 ----
\* ctx: audioCtxRef.current; el: audioRef.current is set; ok: the browser
\* lets `new AudioContext()` succeed.  Returns the new ref, whether a graph
\* was constructed and whether the call threw.
initAudioContext(ctx, el, ok) ==
  IF ctx = "none" /\ el
    THEN IF ok
           THEN [threw |-> FALSE, ctx |-> "running", created |-> TRUE]
           ELSE [threw |-> TRUE, ctx |-> ctx, created |-> FALSE]
    ELSE [threw |-> FALSE,
          ctx |-> IF ctx = "suspended" THEN "running" ELSE ctx,
          created |-> FALSE]

\* the track effect without its cold-start test
coldStartNever == FALSE

\* Player.tsx:52, the cold-start test of the track effect
coldStart == isInitialMount

\* ---- scenario monitor: A at mount, play, loadTrack(B), B fails ----
ScnStep(s, l) ==
  CASE l.ev = "suspend" -> s
    [] s = "s0" /\ l.ev = "loadTrack" /\ l.first -> "s1"
    [] s = "s1" /\ l.ev = "toggleStart" /\ l.issued # None -> "s2"
    [] s = "s2" /\ l.ev = "settle" /\ l.outcome = "resolved" -> "s3"
    [] s = "s3" /\ l.ev = "togglePlayResume" -> "s4"
    [] s = "s4" /\ l.ev = "loadTrack" /\ l.issued # None -> "s5"
    [] s = "s5" /\ l.ev = "error" -> "s6e"
    [] s = "s5" /\ l.ev = "settle" /\ l.outcome # "resolved" -> "s6r"
    [] s = "s6r" /\ l.ev = "attemptPlayResume" -> "s7r"
    [] s = "s7r" /\ l.ev = "error" -> "done"
    [] s = "s6e" /\ l.ev = "settle" /\ l.outcome # "resolved" -> "s8"
    [] s = "s8" /\ l.ev = "attemptPlayResume" -> "done"
    [] OTHER -> "off"

Init ==
  /\ track = None
  /\ isPlaying = FALSE
  /\ error = NoError
  /\ currentTime = 0
  /\ duration = 0
  /\ elPos = 0
  /\ volume = InitialVolume
  /\ elVolume = DefaultElVolume
  /\ analyser = FALSE
  /\ audioCtx = "none"
  /\ playPromiseRef = None
  /\ elemError = FALSE
  /\ elPlaying = FALSE
  /\ isInitialMount = TRUE
  /\ ops = [k \in OpIds |-> NoOp]
  /\ nextOp = 1
  /\ pauseWaiters = NoWaiters
  /\ microtasks = << >>
  /\ ctxCount = 0
  /\ analyserCount = 0
  /\ loadCount = 0
  /\ autoOp = None
  /\ scn = "s0"
  /\ last = E0

\* ---- useEffect on [track], Player.tsx:44-79, track non-null ----
\* R: the pending promises that load() resolves rather than aborts
loadTrack(t, ok, R) ==
  LET g == initAudioContext(audioCtx, TRUE, ok)
      loaded == Flush(ops, R, TRUE)                \* audioRef.current.load()
  IN
  /\ microtasks = << >>
  /\ t \in Tracks /\ t # track
  /\ R \in Resolvable
  /\ track' = t
  /\ error' = NoError
  /\ elemError' = FALSE
  /\ elPlaying' = FALSE
  /\ isInitialMount' = FALSE
  /\ loadCount' = Min(loadCount + 1, 2)
  /\ microtasks' = FlushReactions(1)
  /\ pauseWaiters' = NoWaiters
  /\ elPos' = 0
  /\ UNCHANGED << currentTime, duration >>
  /\ UNCHANGED volVars
  /\ IF coldStart
       THEN /\ ops' = loaded
            /\ autoOp' = None
            /\ last' = [E0 EXCEPT !.ev = "loadTrack", !.first = TRUE]
            /\ UNCHANGED << isPlaying, analyser, audioCtx, playPromiseRef,
                            nextOp, ctxCount, analyserCount >>
       ELSE IF g.threw
         THEN \* attemptPlay: initAudioContext threw inside the try
              /\ isPlaying' = FALSE
              /\ playPromiseRef' = None
              /\ ops' = loaded
              /\ autoOp' = None
              /\ last' = [E0 EXCEPT !.ev = "loadTrack", !.threw = TRUE,
                                    !.setPlaying = "false"]
              /\ UNCHANGED << analyser, audioCtx, nextOp, ctxCount,
                              analyserCount >>
         ELSE /\ nextOp <= MaxOps
              /\ audioCtx' = g.ctx
              /\ analyser' = (analyser \/ g.created)
              /\ ctxCount' = ctxCount + (IF g.created THEN 1 ELSE 0)
              /\ analyserCount' = analyserCount + (IF g.created THEN 1 ELSE 0)
              /\ ops' = Play(loaded, "auto")
              /\ playPromiseRef' = nextOp
              /\ autoOp' = nextOp
              /\ nextOp' = nextOp + 1
              /\ last' = [E0 EXCEPT !.ev = "loadTrack", !.issued = nextOp]
              /\ UNCHANGED isPlaying
  /\ scn' = ScnStep(scn, last')

\* the track prop becomes null: the effect does nothing, the component
\* renders null (Player.tsx:45, 146) and the element is removed
unloadTrack(R) ==
  /\ microtasks = << >>
  /\ track # None
  /\ R \in Resolvable
  /\ track' = None
  /\ ops' = Flush(ops, R, TRUE)
  /\ microtasks' = FlushReactions(1)
  /\ pauseWaiters' = NoWaiters
  /\ elemError' = FALSE
  /\ elPlaying' = FALSE
  /\ autoOp' = None
  /\ last' = [E0 EXCEPT !.ev = "unmount"]
  /\ scn' = ScnStep(scn, last')
  /\ elPos' = 0
  /\ elVolume' = DefaultElVolume     \* the next element is a new one
  /\ UNCHANGED << isPlaying, error, currentTime, duration, volume, analyser,
                  audioCtx, playPromiseRef, isInitialMount, nextOp, ctxCount,
                  analyserCount, loadCount >>

\* transport buttons that are never disabled
buttonNeverDisabled == FALSE

\* `disabled={!!error}` of the two transport buttons, Player.tsx:205, 221
buttonDisabled == error # NoError

\* ---- togglePlay, Player.tsx:81-112, up to its await ----
\* Dispatched by the transport buttons.  rs0: the element's readyState is
\* 0; R: the pending promises that pause() or load() resolves rather than
\* aborts.
togglePlay(rs0, ok, R) ==
  LET g == initAudioContext(audioCtx, TRUE, ok)
      reloaded == IF rs0 THEN Flush(ops, R, FALSE) ELSE ops
  IN
  /\ microtasks = << >>
  /\ track # None
  /\ ~buttonDisabled
  /\ R \in Resolvable
  /\ IF isPlaying
       THEN /\ UNCHANGED << analyser, audioCtx, playPromiseRef, nextOp,
                            ctxCount, analyserCount, elemError, elPos >>
            /\ IF playPromiseRef # None
                 THEN \* await playPromiseRef.current
                      /\ R = {}
                      /\ pauseWaiters[playPromiseRef] < MaxWaiters
                      /\ pauseWaiters' = [pauseWaiters EXCEPT
                                            ![playPromiseRef] = @ + 1]
                      /\ last' = [E0 EXCEPT !.ev = "togglePause"]
                      /\ UNCHANGED << isPlaying, ops, microtasks, elPlaying >>
                 ELSE \* pause(); setIsPlaying(false)
                      /\ ops' = Flush(ops, R, FALSE)
                      /\ microtasks' = FlushReactions(1)
                      /\ pauseWaiters' = NoWaiters
                      /\ isPlaying' = FALSE
                      /\ elPlaying' = FALSE
                      /\ last' = [E0 EXCEPT !.ev = "togglePause",
                                            !.setPlaying = "false",
                                            !.paused = TRUE]
       ELSE IF g.threw
         THEN \* initAudioContext threw outside the try: togglePlay rejects
              /\ R = {}
              /\ last' = [E0 EXCEPT !.ev = "toggleStart", !.threw = TRUE]
              /\ UNCHANGED << isPlaying, analyser, audioCtx, playPromiseRef,
                              ops, nextOp, pauseWaiters, microtasks, ctxCount,
                              analyserCount, elemError, elPlaying, elPos >>
         ELSE /\ nextOp <= MaxOps
              /\ rs0 \/ R = {}
              /\ audioCtx' = g.ctx
              /\ analyser' = (analyser \/ g.created)
              /\ ctxCount' = ctxCount + (IF g.created THEN 1 ELSE 0)
              /\ analyserCount' = analyserCount + (IF g.created THEN 1 ELSE 0)
              /\ ops' = Play(reloaded, "toggle")
              /\ microtasks' = IF rs0 THEN FlushReactions(1) ELSE << >>
              /\ pauseWaiters' = IF rs0 THEN NoWaiters ELSE pauseWaiters
              /\ elemError' = (elemError /\ ~rs0)
              /\ elPlaying' = (elPlaying /\ ~rs0)
              /\ elPos' = IF rs0 THEN 0 ELSE elPos
              /\ playPromiseRef' = nextOp
              /\ nextOp' = nextOp + 1
              /\ last' = [E0 EXCEPT !.ev = "toggleStart", !.issued = nextOp]
              /\ UNCHANGED isPlaying
  /\ scn' = ScnStep(scn, last')
  /\ UNCHANGED << track, error, currentTime, duration, isInitialMount,
                  loadCount, autoOp >>
  /\ UNCHANGED volVars

\* ---- the platform settles one play() promise ----
settle(k, outcome) ==
  /\ microtasks = << >>
  /\ Pending(k)
  /\ outcome \in {"resolved", "reject"}
  /\ outcome = "resolved" => ~elemError
  /\ ops' = [ops EXCEPT ![k].status = outcome]
  /\ microtasks' = Reactions(k)
  /\ pauseWaiters' = [pauseWaiters EXCEPT ![k] = 0]
  /\ elPlaying' = (elPlaying \/ outcome = "resolved")
  /\ last' = [E0 EXCEPT !.ev = "settle", !.outcome = outcome]
  /\ scn' = ScnStep(scn, last')
  /\ UNCHANGED << track, isPlaying, error, analyser, audioCtx,
                  playPromiseRef, elemError, isInitialMount, nextOp, ctxCount,
                  analyserCount, loadCount, autoOp >>
  /\ UNCHANGED timeVars
  /\ UNCHANGED volVars

\* ---- the code behind the awaits ----
\* Each returns the state the continuation leaves: pl/er/ref are isPlaying,
\* error and playPromiseRef.current, set is the value passed to
\* setIsPlaying ("none": not called), paused is whether pause() was called.

\* attemptPlay with togglePlay's catch block
attemptPlayResumeSetsError(k) ==
  IF ops[k].status = "resolved"
    THEN [pl |-> TRUE, er |-> error, ref |-> None, set |-> "true",
          paused |-> FALSE]
    ELSE [pl |-> FALSE, er |-> ErrPlay, ref |-> None, set |-> "false",
          paused |-> FALSE]

\* an attemptPlay whose catch leaves isPlaying alone
attemptPlayResumeKeepsPlaying(k) ==
  IF ops[k].status = "resolved"
    THEN [pl |-> TRUE, er |-> error, ref |-> None, set |-> "true",
          paused |-> FALSE]
    ELSE [pl |-> isPlaying, er |-> error, ref |-> None, set |-> "none",
          paused |-> FALSE]

\* attemptPlay after `await playPromiseRef.current`, Player.tsx:63-74
attemptPlayResume(k) ==
  IF ops[k].status = "resolved"
    THEN [pl |-> TRUE, er |-> error, ref |-> None, set |-> "true",
          paused |-> FALSE]
    ELSE [pl |-> FALSE, er |-> error, ref |-> None, set |-> "false",
          paused |-> FALSE]

\* a start branch that clears the handle on success only
togglePlayResumeKeepsHandle(k) ==
  IF ops[k].status = "resolved"
    THEN [pl |-> TRUE, er |-> NoError, ref |-> None, set |-> "true",
          paused |-> FALSE]
    ELSE [pl |-> isPlaying, er |-> ErrPlay, ref |-> playPromiseRef,
          set |-> "none", paused |-> FALSE]

\* togglePlay's start branch after `await`, Player.tsx:102-110
togglePlayResume(k) ==
  IF ops[k].status = "resolved"
    THEN [pl |-> TRUE, er |-> NoError, ref |-> None, set |-> "true",
          paused |-> FALSE]
    ELSE [pl |-> isPlaying, er |-> ErrPlay, ref |-> None, set |-> "none",
          paused |-> FALSE]

\* togglePlay's pause branch after `await`, Player.tsx:87-93; with the
\* element unmounted audioRef.current.pause() throws into the catch
togglePauseResume(k) ==
  IF ops[k].status = "resolved" /\ track # None
    THEN [pl |-> FALSE, er |-> error, ref |-> playPromiseRef, set |-> "false",
          paused |-> TRUE]
    ELSE [pl |-> isPlaying, er |-> error, ref |-> playPromiseRef,
          set |-> "none", paused |-> FALSE]

\* R: the pending promises that a pause() of the continuation resolves
runMicrotask(R) ==
  /\ microtasks # << >>
  /\ R \in Resolvable
  /\ LET m == Head(microtasks)
         r == CASE m.kind = "auto" -> attemptPlayResume(m.op)
                [] m.kind = "toggle" -> togglePlayResume(m.op)
                [] OTHER -> togglePauseResume(m.op)
         name == CASE m.kind = "auto" -> "attemptPlayResume"
                   [] m.kind = "toggle" -> "togglePlayResume"
                   [] OTHER -> "togglePauseResume"
     IN /\ r.paused \/ R = {}
        /\ isPlaying' = r.pl
        /\ error' = r.er
        /\ playPromiseRef' = r.ref
        /\ ops' = IF r.paused THEN Flush(ops, R, FALSE) ELSE ops
        /\ microtasks' = Tail(microtasks) \o
                         (IF r.paused THEN FlushReactions(1) ELSE << >>)
        /\ pauseWaiters' = IF r.paused THEN NoWaiters ELSE pauseWaiters
        /\ elPlaying' = (elPlaying /\ ~r.paused)
        /\ last' = [E0 EXCEPT !.ev = name, !.outcome = ops[m.op].status,
                              !.stale = ops[m.op].stale,
                              !.setPlaying = r.set, !.paused = r.paused]
  /\ scn' = ScnStep(scn, last')
  /\ UNCHANGED << track, analyser, audioCtx, elemError, isInitialMount,
                  nextOp, ctxCount, analyserCount, loadCount, autoOp >>
  /\ UNCHANGED timeVars
  /\ UNCHANGED volVars

\* handleAudioError without its setError call
handleAudioErrorSilent == [er |-> error, pl |-> FALSE]

\* ---- handleAudioError, Player.tsx:126-130: the state it sets ----
handleAudioError == [er |-> ErrLoad, pl |-> FALSE]

\* the element's error event (onError, Player.tsx:159)
onError ==
  /\ microtasks = << >>
  /\ track # None
  /\ elemError' = TRUE
  /\ elPlaying' = FALSE
  /\ error' = handleAudioError.er
  /\ isPlaying' = handleAudioError.pl
  /\ autoOp' = None
  /\ last' = [E0 EXCEPT !.ev = "error", !.setPlaying = "false"]
  /\ scn' = ScnStep(scn, last')
  /\ UNCHANGED << track, analyser, audioCtx, playPromiseRef, isInitialMount,
                  ops, nextOp, pauseWaiters, microtasks, ctxCount,
                  analyserCount, loadCount >>
  /\ UNCHANGED timeVars
  /\ UNCHANGED volVars

\* ---- the browser suspends the processing context ----
suspendCtx ==
  /\ microtasks = << >>
  /\ audioCtx = "running"
  /\ audioCtx' = "suspended"
  /\ last' = [E0 EXCEPT !.ev = "suspend"]
  /\ scn' = ScnStep(scn, last')
  /\ UNCHANGED << track, isPlaying, error, analyser, playPromiseRef,
                  elemError, elPlaying, isInitialMount, ops, nextOp,
                  pauseWaiters, microtasks, ctxCount, analyserCount,
                  loadCount, autoOp >>
  /\ UNCHANGED timeVars
  /\ UNCHANGED volVars

\* the variables the time handlers leave alone
playVars == << track, isPlaying, error, analyser, audioCtx, playPromiseRef,
               elemError, elPlaying, isInitialMount, ops, nextOp, pauseWaiters,
               microtasks, ctxCount, analyserCount, loadCount, autoOp, scn,
               last >>

\* ---- the element's position moves forward ----
advance ==
  /\ microtasks = << >>
  /\ track # None
  /\ elPlaying
  /\ elPos < MaxPos
  /\ elPos' = elPos + 1
  /\ UNCHANGED << currentTime, duration >>
  /\ UNCHANGED playVars
  /\ UNCHANGED volVars

\* a handler that reads the wrong field of the element
handleTimeUpdateDuration == duration

\* an ended handler that also stops the transport
endedHandlerStops == [onNext |-> 1, pl |-> FALSE]

\* ---- onEnded={onNext}, Player.tsx:158: what the handler does ----
\* onNext: calls of the advance-to-next-track collaborator; pl: isPlaying
endedHandler == [onNext |-> 1, pl |-> isPlaying]

\* the element's ended event: playback has reached the end and stopped.
\* The queue may react to onNext with a change of the track prop, which is
\* a later loadTrack or unloadTrack.
onEnded ==
  /\ microtasks = << >>
  /\ track # None
  /\ elPlaying
  /\ elPlaying' = FALSE
  /\ isPlaying' = endedHandler.pl
  /\ last' = [E0 EXCEPT !.ev = "ended", !.onNext = endedHandler.onNext]
  /\ scn' = ScnStep(scn, last')
  /\ UNCHANGED << track, error, analyser, audioCtx, playPromiseRef,
                  elemError, isInitialMount, ops, nextOp, pauseWaiters,
                  microtasks, ctxCount, analyserCount, loadCount, autoOp >>
  /\ UNCHANGED timeVars
  /\ UNCHANGED volVars

\* ---- handleTimeUpdate, Player.tsx:114-118: the value it displays ----
\* the event carries no position, the handler reads the element
handleTimeUpdate == elPos

\* the element's time-progress event (onTimeUpdate, Player.tsx:156); queued
\* events are delivered whenever the element is mounted, also after a seek
\* or a change of source
onTimeUpdate ==
  /\ microtasks = << >>
  /\ track # None
  /\ currentTime' = handleTimeUpdate
  /\ UNCHANGED << duration, elPos >>
  /\ UNCHANGED playVars
  /\ UNCHANGED volVars

\* ---- handleLoadedMetadata, Player.tsx:120-124 ----
\* d: the duration the element reports for its source
onLoadedMetadata(d) ==
  /\ microtasks = << >>
  /\ track # None
  /\ d \in 1..MaxPos
  /\ duration' = d
  /\ UNCHANGED << currentTime, elPos >>
  /\ UNCHANGED playVars
  /\ UNCHANGED volVars

\* ---- handleSeek, Player.tsx:132-138 ----
\* t: the value of the range input, whose max is `duration || 0`
\* (Player.tsx:172, 234)
handleSeek(t) ==
  /\ microtasks = << >>
  /\ track # None
  /\ t \in 0..duration
  /\ elPos' = t
  /\ currentTime' = t
  /\ UNCHANGED duration
  /\ UNCHANGED playVars
  /\ UNCHANGED volVars

Next ==
  \/ \E t \in Tracks, ok \in BOOLEAN, R \in Resolvable : loadTrack(t, ok, R)
  \/ \E R \in Resolvable : unloadTrack(R)
  \/ \E rs0 \in BOOLEAN, ok \in BOOLEAN, R \in Resolvable :
       togglePlay(rs0, ok, R)
  \/ \E k \in OpIds, outcome \in {"resolved", "reject"} : settle(k, outcome)
  \/ \E R \in Resolvable : runMicrotask(R)
  \/ onError
  \/ suspendCtx
  \/ onEnded

Spec == Init /\ [][Next]_vars

\* ---- onChange of the volume input, Player.tsx:254-258 ----
\* vol: the volume state, el: audioRef.current.volume
setVolumeHandler(v) == [vol |-> v, el |-> v]

setVolume(v) ==
  /\ microtasks = << >>
  /\ track # None
  /\ v \in Volumes
  /\ volume' = setVolumeHandler(v).vol
  /\ elVolume' = setVolumeHandler(v).el
  /\ UNCHANGED playVars
  /\ UNCHANGED timeVars

\* The volume input reads and writes nothing but the two volumes, so it is
\* interleaved with the playback steps in a specification of its own.
NextVolume == \E v \in Volumes : setVolume(v)

SpecVolume == Init /\ [][Next \/ NextVolume]_vars

\* The steps of the time handlers.  They read no playback variable but
\* track, elPlaying and the empty microtask queue and write none, so the
\* playback claims are checked under Spec and the claims about these
\* handlers under SpecTime, which interleaves them with every step of Spec.
NextTime ==
  \/ advance
  \/ onTimeUpdate
  \/ \E d \in Positions : onLoadedMetadata(d)
  \/ \E t \in Positions : handleSeek(t)

SpecTime == Init /\ [][Next \/ NextTime]_vars

\* the step is a run of the playback handler that reports itself as e
Handled(e) == playVars' # playVars /\ last'.ev = e

\* between tasks the handle, when set, holds an unsettled promise
RefPending ==
  (microtasks = << >> /\ playPromiseRef # None) => Pending(playPromiseRef)

\* ======================= properties =======================

\* C1: in every reachable state at most one start operation (play() call)
\* is issued and not yet settled.
C1_AtMostOneOutstanding == Cardinality(Outstanding) <= 1

\* C2: the settlement of a start operation whose track was replaced while
\* it was pending never calls setIsPlaying(true).
C2_StaleNeverSetsPlaying ==
  ~ ( /\ last.ev \in {"attemptPlayResume", "togglePlayResume"}
      /\ last.stale
      /\ last.setPlaying = "true" )

\* C3: error is never set while isPlaying is true.
C3_ErrorExcludesPlaying == error # NoError => ~isPlaying

\* C4: the first loadTrack issues no start operation and leaves isPlaying
\* false; while it is the only load so far, no automatic start exists and
\* isPlaying is true only after a togglePlay start that resolved.
C4_ColdStart ==
  /\ (last.ev = "loadTrack" /\ last.first)
       => (last.issued = None /\ ~isPlaying /\ Outstanding = {})
  /\ loadCount = 1 => \A k \in OpIds : ops[k].issuer # "auto"
  /\ (loadCount = 1 /\ isPlaying)
       => \E k \in OpIds : ops[k].issuer = "toggle"
                           /\ ops[k].status = "resolved"

C4_Witness == loadCount = 1 /\ isPlaying /\ track # None

\* C5: every loadTrack but the first issues an automatic start operation,
\* and if that operation resolved with no track change or element error
\* since, then once everything has settled isPlaying is true.
C5_AutoStartPlays ==
  /\ (last.ev = "loadTrack" /\ ~last.first) => last.issued # None
  /\ (autoOp # None /\ ops[autoOp].status = "resolved" /\ Settled)
       => isPlaying

\* C6: the failure handling of an automatic start operation that rejects
\* with an abort-class failure does not write error: error is what it was,
\* none if it was none.
C6_AutoAbortKeepsError ==
  [][(Handled("attemptPlayResume") /\ last'.outcome = "abort")
       => error' = error]_vars

C6_Witness ==
  last.ev = "attemptPlayResume" /\ last.outcome = "abort" /\ error = NoError

\* C7: right after the failure handling of a rejected togglePlay start
\* operation, error is a message and isPlaying is false.
C7_ToggleRejectSetsError ==
  (last.ev = "togglePlayResume" /\ last.outcome # "resolved")
    => (error # NoError /\ ~isPlaying)

\* C8: a togglePlay invoked while the start operation of an earlier
\* togglePlay is pending takes the pause path and issues no start operation.
C8_SecondClickPauses ==
  [][( /\ Handled("toggleStart") \/ Handled("togglePause")
       /\ \E k \in OpIds : Pending(k) /\ ops[k].issuer = "toggle" )
       => (last'.ev = "togglePause" /\ last'.issued = None)]_vars

\* C9: track A at mount, togglePlay succeeds, loadTrack(B), then B's error
\* event and the rejection of the automatic start in either order: error is
\* none right after loadTrack(B), and at the end error is the load-failure
\* message and isPlaying is false.
C9_Scenario ==
  /\ scn = "s5" => error = NoError
  /\ scn = "done" => (error = ErrLoad /\ ~isPlaying /\ Settled)

C9_Witness == scn = "done"

\* C10: at most one processing context and one analysis node are ever
\* constructed; once a graph exists no handler constructs anything, and the
\* context changes only by being resumed from "suspended" (or by the
\* browser suspending it).
C10_SingleGraph ==
  /\ [](ctxCount <= 1 /\ analyserCount <= 1)
  /\ [][audioCtx # "none"
          => /\ ctxCount' = ctxCount
             /\ analyserCount' = analyserCount
             /\ analyser' = analyser
             /\ audioCtx' # audioCtx
                  => \/ audioCtx = "suspended" /\ audioCtx' = "running"
                     \/ Handled("suspend")]_vars

C10_Witness == ctxCount = 1 /\ nextOp > 2

\* C11: handleSeek(t) sets the element's position and currentTime to t; a
\* time-progress event sets currentTime to the position the element has at
\* that moment, so with the position at or past a seek target t it never
\* shows less than t, and after a track change it shows the new source's
\* position, not the previous track's.
C11_SeekNotUndone ==
  [][ /\ \A t \in Positions :
           handleSeek(t) => (currentTime' = t /\ elPos' = t)
      /\ onTimeUpdate
           => /\ currentTime' = elPos
              /\ \A t \in Positions : elPos >= t => currentTime' >= t ]_vars

C11_Witness ==
  loadCount = 2 /\ duration = MaxPos /\ elPos = MaxPos /\ currentTime = MaxPos

\* C12: no togglePlay invocation begins in a state in which error is set.
C12_NoToggleWhileError ==
  [][(Handled("toggleStart") \/ Handled("togglePause"))
       => error = NoError]_vars

C12_Witness ==
  error # NoError /\ track # None /\ microtasks = << >>

C14_AbortNeverSetsError ==
  [][( /\ Handled("attemptPlayResume") \/ Handled("togglePlayResume")
       /\ last'.outcome = "abort" )
       => error' = error]_vars

\* C15, as stated: after the automatic start has rejected with a non-abort
\* failure, isPlaying is false and error is none.
C15_AutoRejectPaused ==
  (last.ev = "attemptPlayResume" /\ last.outcome = "reject")
    => (~isPlaying /\ error = NoError)

\* C15, amended: the continuation of an automatic start that rejected with
\* a non-abort failure sets isPlaying to false and leaves error as it was.
C15_AutoRejectKeepsError ==
  [][(Handled("attemptPlayResume") /\ last'.outcome = "reject")
       => (~isPlaying' /\ error' = error)]_vars

C15_Witness ==
  /\ last.ev = "attemptPlayResume" /\ last.outcome = "reject"
  /\ ~isPlaying /\ error = NoError /\ track # None /\ ~buttonDisabled

\* C16: a playback attempt in which the construction of the audio graph
\* fails still issues its start operation, and the failure does not escape
\* the handler (in togglePlay the construction stands outside every try).
C16_GraphFailureNonFatal ==
  last.threw => (last.issued # None /\ last.ev # "toggleStart")

\* C17: in every state in which no start operation is outstanding and no
\* continuation is waiting to run, playPromiseRef is none.
C17_HandleCleared == Settled => playPromiseRef = None

C17_Witness ==
  /\ Settled
  /\ \E k \in OpIds : ops[k].status = "resolved"
  /\ \E k \in OpIds : ops[k].status \in {"reject", "abort"}

\* C18: a processing context exists only once togglePlay has issued a
\* start operation.
C18_GraphOnFirstToggle ==
  ctxCount > 0 => \E k \in OpIds : ops[k].issuer = "toggle"

\* C19: pause() is invoked only in a state in which no start operation is
\* outstanding, and once the pause branch has run to its end isPlaying is
\* false.
C19_PauseAfterSettlement ==
  /\ [][\A e \in {"togglePause", "togglePauseResume"} :
          (Handled(e) /\ last'.paused) => Outstanding = {}]_vars
  /\ [](last.ev = "togglePauseResume" => ~isPlaying)

\* C20: an ended event calls the advance-to-next-track collaborator exactly
\* once and changes none of isPlaying, currentTime, duration and error.
C20_EndedAdvancesOnce ==
  [][Handled("ended")
       => /\ last'.onNext = 1
          /\ UNCHANGED << isPlaying, currentTime, duration, error >>]_vars

C20_Witness == last.ev = "ended" /\ isPlaying /\ currentTime > 0

\* C21: whenever a start operation is outstanding, playPromiseRef is set,
\* and while the most recently issued start is outstanding playPromiseRef
\* refers to it: the continuation of an older start neither clears nor
\* replaces it.
C21_HandleIsNewest ==
  Outstanding # {}
    => /\ playPromiseRef # None
       /\ Pending(nextOp - 1) => playPromiseRef = nextOp - 1

\* C22: once every queued continuation has run, isPlaying = true implies
\* that the element is playing or that a start operation is outstanding.
C22_PlayingAgreesWithElement ==
  (isPlaying /\ microtasks = << >>) => (elPlaying \/ Outstanding # {})

\* C23: whenever an element exists the volume shown by the volume input is
\* the volume of the element, and a change of the volume input changes
\* none of isPlaying, currentTime, duration and error.
C23_VolumeAgrees ==
  /\ [](track # None => volume = elVolume)
  /\ [][(\E v \in Volumes : setVolume(v))
          => UNCHANGED << isPlaying, currentTime, duration, error >>]_vars

\* C24: once error is set it is cleared by loadTrack only; the continuation
\* of a start operation never clears it.
C24_ErrorUntilLoad ==
  [][(error # NoError /\ error' = NoError) => Handled("loadTrack")]_vars



====
